---- MODULE Spec2Model ----
(***************************************************************************)
(* TCNForecaster (pyzoo/zoo/chronos/model/forecast/tcn_forecaster.py):     *)
(* a facade that validates array shapes and delegates to an owned          *)
(* TCNPytorch model.  The state is the facade's two dictionaries, the      *)
(* collaborator's model_built flag, and an observation of the latest       *)
(* facade call (its arguments, how it ended, and the collaborator calls    *)
(* it made).                                                               *)
(***************************************************************************)
EXTENDS Integers, Sequences, FiniteSets, TLC

VARIABLES data_config, config, internal, last

vars == <<data_config, config, internal, last>>

(* ------------------------------ bounds --------------------------------- *)

\* array dimensions range over 1..MaxDim
MaxDim == 2

\* values the constructor's four shape parameters are drawn from
ConfigDims == {1, 2}

\* leading (num_samples) dimension of rank-3 arrays
SampleCounts == {3}

BatchSizes == {32, 64}
EpochsSet == {1}
MetricSet == {"mse"}
MetricLists == {<<"mse">>}
Multioutputs == {"raw_values", "uniform_average"}
Paths == {"ckpt"}

\* Python None for the optional string parameter dirname
None == "None"
Dirnames == {None, "onnx_dir"}

\* Python None for the optional tuple parameter validation_data
NoValidation == <<>>

\* what a collaborator call can do: return one of Results, or raise
Results == {"r1", "r2"}
Raise == "raise"
CollabOutcomes == Results \cup {Raise}

(* ------------------------------ arrays --------------------------------- *)

\* shapes (num_samples, d1, d2); the last two dimensions are the checked ones
Shapes == {<<n, a, b>> : n \in SampleCounts, a \in 1..MaxDim, b \in 1..MaxDim}

\* the arrays handed to fit
Arrays(name) == [name : {name}, shape : Shapes]

\* the arrays handed to predict and evaluate, whose shapes the facade never reads
QueryArrays(name) == [name : {name}, shape : {<<n, 1, 1>> : n \in SampleCounts}]

\* Python's shape[-k]
ShapeAt(arr, k) == arr.shape[Len(arr.shape) + 1 - k]

(* --------------------------- collaborator ------------------------------ *)

\* TCNPytorch(check_optional_config=False): a model that is not built
TCNPytorchNew == [model_built |-> FALSE]

\* fit_eval: on a normal return the model is built; a raise leaves it as is
CollabFitEval(int, co) ==
    IF co = Raise THEN int ELSE [int EXCEPT !.model_built = TRUE]

\* restore: on a normal return the model is built; a raise leaves it as is
CollabRestore(int, co) ==
    IF co = Raise THEN int ELSE [int EXCEPT !.model_built = TRUE]

\* predict, evaluate, their ONNX variants and save do not change the flag
CollabReadOnly(int, co) == int

(* ------------------------------ facade --------------------------------- *)

NoError == [field |-> "none", expected |-> 0, actual |-> 0]

ShapeError(f, e, a) == [field |-> f, expected |-> e, actual |-> a]

\* _check_data with the claimed order x[-2], x[-1], y[-2], y[-1]
CheckDataXFirst(dc, x, y) ==
    IF dc.past_seq_len # ShapeAt(x, 2)
    THEN ShapeError("past_seq_len", dc.past_seq_len, ShapeAt(x, 2))
    ELSE IF dc.input_feature_num # ShapeAt(x, 1)
    THEN ShapeError("input_feature_num", dc.input_feature_num, ShapeAt(x, 1))
    ELSE IF dc.future_seq_len # ShapeAt(y, 2)
    THEN ShapeError("future_seq_len", dc.future_seq_len, ShapeAt(y, 2))
    ELSE IF dc.output_feature_num # ShapeAt(y, 1)
    THEN ShapeError("output_feature_num", dc.output_feature_num, ShapeAt(y, 1))
    ELSE NoError

\* _check_data without the input_feature_num assertion
CheckDataNoInputFeature(dc, x, y) ==
    IF dc.past_seq_len # ShapeAt(x, 2)
    THEN ShapeError("past_seq_len", dc.past_seq_len, ShapeAt(x, 2))
    ELSE IF dc.future_seq_len # ShapeAt(y, 2)
    THEN ShapeError("future_seq_len", dc.future_seq_len, ShapeAt(y, 2))
    ELSE IF dc.output_feature_num # ShapeAt(y, 1)
    THEN ShapeError("output_feature_num", dc.output_feature_num, ShapeAt(y, 1))
    ELSE NoError

\* _check_data: four assertions in source order; the first that fails raises
CheckData(dc, x, y) ==
    IF dc.past_seq_len # ShapeAt(x, 2)
    THEN ShapeError("past_seq_len", dc.past_seq_len, ShapeAt(x, 2))
    ELSE IF dc.future_seq_len # ShapeAt(y, 2)
    THEN ShapeError("future_seq_len", dc.future_seq_len, ShapeAt(y, 2))
    ELSE IF dc.input_feature_num # ShapeAt(x, 1)
    THEN ShapeError("input_feature_num", dc.input_feature_num, ShapeAt(x, 1))
    ELSE IF dc.output_feature_num # ShapeAt(y, 1)
    THEN ShapeError("output_feature_num", dc.output_feature_num, ShapeAt(y, 1))
    ELSE NoError

\* validation_data is ignored and (x, y) is always used
DefaultValidationAlwaysXY(vd, x, y) == <<x, y>>

\* if validation_data is None: validation_data = (x, y)
DefaultValidation(vd, x, y) == IF vd = NoValidation THEN <<x, y>> ELSE vd

\* batch_size is only set when the key is missing
SetBatchSizeIfMissing(cfg, b) ==
    IF "batch_size" \in DOMAIN cfg THEN cfg
    ELSE [k \in DOMAIN cfg \cup {"batch_size"} |->
             IF k = "batch_size" THEN b ELSE cfg[k]]

\* the config dictionary is replaced instead of updated
SetBatchSizeReplace(cfg, b) ==
    [k \in {"batch_size"} |-> b]

\* self.config["batch_size"] = batch_size
SetBatchSize(cfg, b) ==
    [k \in DOMAIN cfg \cup {"batch_size"} |->
        IF k = "batch_size" THEN b ELSE cfg[k]]

\* the gate is missing
ModelBuiltGateOpen(int) == TRUE

\* the gate is inverted
ModelBuiltGateInverted(int) == ~int.model_built

\* "if not self.internal.model_built: raise RuntimeError": TRUE lets the call through
ModelBuiltGate(int) == int.model_built

\* "return self.internal.<op>(...)"
ReturnOf(callResult) == callResult

\* the set holding config["batch_size"], empty while the key is absent
BatchSizeOf(cfg) ==
    IF "batch_size" \in DOMAIN cfg THEN {cfg["batch_size"]} ELSE {}

NoCalls == <<>>

Observation(op, args, outcome, err, calls, ret) ==
    [op |-> op, args |-> args, outcome |-> outcome, err |-> err,
     calls |-> calls, ret |-> ret]

\* how a delegated call ends for the facade's caller
Delegated(co) == IF co = Raise THEN "CollabError" ELSE "ok"

(* ------------------------------- Init ---------------------------------- *)

\* __init__: an unbuilt TCNPytorch, data_config and config as given
Init ==
    /\ \E p \in ConfigDims, f \in ConfigDims, i \in ConfigDims, o \in ConfigDims :
          data_config = [past_seq_len |-> p, future_seq_len |-> f,
                         input_feature_num |-> i, output_feature_num |-> o]
    /\ config = [lr |-> "0.001", loss |-> "mse", num_channels |-> <<30, 30>>,
                 kernel_size |-> 7, optim |-> "Adam", dropout |-> "0.2"]
    /\ internal = TCNPytorchNew
    /\ last = Observation("__init__", [none |-> None], "ok", NoError, NoCalls, None)

(* ------------------------------ actions -------------------------------- *)

FitArgs(x, y, validation_data, epochs, metric, batch_size) ==
    [x |-> x, y |-> y, validation_data |-> validation_data,
     epochs |-> epochs, metric |-> metric, batch_size |-> batch_size]

FitEvalCall(x, y, vd, epochs, metric, cfg, co) ==
    [op |-> "fit_eval", data |-> <<x, y>>, validation_data |-> vd,
     epochs |-> epochs, metric |-> metric, config |-> cfg, result |-> co]

\* fit with _check_data called before config["batch_size"] is assigned
FitCheckFirst(x, y, validation_data, epochs, metric, batch_size, co) ==
    LET vd == DefaultValidation(validation_data, x, y)
        err == CheckData(data_config, x, y)
        cfg == IF err = NoError THEN SetBatchSize(config, batch_size) ELSE config
        args == FitArgs(x, y, validation_data, epochs, metric, batch_size)
    IN  /\ config' = cfg
        /\ internal' = IF err = NoError THEN CollabFitEval(internal, co) ELSE internal
        /\ last' = IF err # NoError
                   THEN Observation("fit", args, "ShapeMismatch", err, NoCalls, None)
                   ELSE Observation("fit", args, Delegated(co), NoError,
                            <<FitEvalCall(x, y, vd, epochs, metric, cfg, co)>>,
                            IF co = Raise THEN None ELSE ReturnOf(co))
        /\ UNCHANGED data_config

\* fit with _check_data called after fit_eval
FitCheckLast(x, y, validation_data, epochs, metric, batch_size, co) ==
    LET vd == DefaultValidation(validation_data, x, y)
        cfg == SetBatchSize(config, batch_size)
        err == CheckData(data_config, x, y)
        args == FitArgs(x, y, validation_data, epochs, metric, batch_size)
        call == FitEvalCall(x, y, vd, epochs, metric, cfg, co)
    IN  /\ config' = cfg
        /\ internal' = CollabFitEval(internal, co)
        /\ last' = IF co = Raise
                   THEN Observation("fit", args, "CollabError", NoError, <<call>>, None)
                   ELSE IF err # NoError
                   THEN Observation("fit", args, "ShapeMismatch", err, <<call>>, None)
                   ELSE Observation("fit", args, "ok", NoError, <<call>>, ReturnOf(co))
        /\ UNCHANGED data_config

\* fit: default the validation data, assign batch_size, check the shapes
\* (a failed assertion ends the call there), then delegate to fit_eval
Fit(x, y, validation_data, epochs, metric, batch_size, co) ==
    LET vd == DefaultValidation(validation_data, x, y)
        cfg == SetBatchSize(config, batch_size)
        err == CheckData(data_config, x, y)
        args == FitArgs(x, y, validation_data, epochs, metric, batch_size)
    IN  /\ config' = cfg
        /\ internal' = IF err = NoError THEN CollabFitEval(internal, co) ELSE internal
        /\ last' = IF err # NoError
                   THEN Observation("fit", args, "ShapeMismatch", err, NoCalls, None)
                   ELSE Observation("fit", args, Delegated(co), NoError,
                            <<FitEvalCall(x, y, vd, epochs, metric, cfg, co)>>,
                            IF co = Raise THEN None ELSE ReturnOf(co))
        /\ UNCHANGED data_config

\* the shared shape of predict, predict_with_onnx, evaluate, evaluate_with_onnx, save
Gated(op, collabOp, args, co, returns) ==
    /\ last' = IF ~ModelBuiltGate(internal)
               THEN Observation(op, args, "NotBuilt", NoError, NoCalls, None)
               ELSE Observation(op, args, Delegated(co), NoError,
                        <<[op |-> collabOp, args |-> args, result |-> co]>>,
                        IF co = Raise \/ ~returns THEN None ELSE ReturnOf(co))
    /\ internal' = IF ModelBuiltGate(internal)
                   THEN CollabReadOnly(internal, co) ELSE internal
    /\ UNCHANGED <<data_config, config>>

Predict(x, co) == Gated("predict", "predict", [x |-> x], co, TRUE)

PredictWithOnnx(x, dirname, co) ==
    Gated("predict_with_onnx", "predict_with_onnx",
          [x |-> x, dirname |-> dirname], co, TRUE)

Evaluate(x, y, metrics, multioutput, co) ==
    Gated("evaluate", "evaluate",
          [x |-> x, y |-> y, metrics |-> metrics, multioutput |-> multioutput],
          co, TRUE)

EvaluateWithOnnx(x, y, metrics, dirname, multioutput, co) ==
    Gated("evaluate_with_onnx", "evaluate_with_onnx",
          [x |-> x, y |-> y, metrics |-> metrics, dirname |-> dirname,
           multioutput |-> multioutput], co, TRUE)

Save(checkpoint_file, co) ==
    Gated("save", "save", [checkpoint_file |-> checkpoint_file], co, FALSE)

\* restore behind the same gate as save
RestoreGated(checkpoint_file, co) ==
    Gated("restore", "restore", [checkpoint_file |-> checkpoint_file], co, FALSE)

\* restore: delegates unconditionally
Restore(checkpoint_file, co) ==
    /\ internal' = CollabRestore(internal, co)
    /\ last' = Observation("restore", [checkpoint_file |-> checkpoint_file],
                   Delegated(co), NoError,
                   <<[op |-> "restore",
                      args |-> [checkpoint_file |-> checkpoint_file],
                      result |-> co]>>,
                   None)
    /\ UNCHANGED <<data_config, config>>

DoFit ==
    \E x \in Arrays("x"), y \in Arrays("y"),
       vd \in {NoValidation} \cup {<<vx, vy>> : vx \in {[name |-> "x_val", shape |-> <<1, 1>>]},
                                                vy \in {[name |-> "y_val", shape |-> <<1, 1>>]}},
       e \in EpochsSet, m \in MetricSet, b \in BatchSizes, co \in CollabOutcomes :
        Fit(x, y, vd, e, m, b, co)

DoPredict == \E x \in QueryArrays("x"), co \in CollabOutcomes : Predict(x, co)

DoPredictWithOnnx ==
    \E x \in QueryArrays("x"), d \in Dirnames, co \in CollabOutcomes :
        PredictWithOnnx(x, d, co)

DoEvaluate ==
    \E x \in QueryArrays("x"), y \in QueryArrays("y"), ms \in MetricLists,
       mo \in Multioutputs, co \in CollabOutcomes :
        Evaluate(x, y, ms, mo, co)

DoEvaluateWithOnnx ==
    \E x \in QueryArrays("x"), y \in QueryArrays("y"), ms \in MetricLists,
       d \in Dirnames, mo \in Multioutputs, co \in CollabOutcomes :
        EvaluateWithOnnx(x, y, ms, d, mo, co)

DoSave == \E p \in Paths, co \in CollabOutcomes : Save(p, co)

DoRestore == \E p \in Paths, co \in CollabOutcomes : Restore(p, co)

Next ==
    \/ DoFit
    \/ DoPredict
    \/ DoPredictWithOnnx
    \/ DoEvaluate
    \/ DoEvaluateWithOnnx
    \/ DoSave
    \/ DoRestore

Spec == Init /\ [][Next]_vars

(* ------------------------------ claims --------------------------------- *)

GatedOps == {"predict", "predict_with_onnx", "evaluate", "evaluate_with_onnx", "save"}

OtherConfigKeys == {"lr", "loss", "num_channels", "kernel_size", "optim", "dropout"}

\* the TrainConfig fields other than batch_size are the same in both dictionaries
SameOtherConfig(c1, c2) ==
    /\ OtherConfigKeys \subseteq DOMAIN c1
    /\ OtherConfigKeys \subseteq DOMAIN c2
    /\ \A k \in OtherConfigKeys : c1[k] = c2[k]

\* the configured value of a ShapeConfig field and the dimension compared with it
ActualOf(field, x, y) ==
    CASE field = "past_seq_len" -> x.shape[Len(x.shape) - 1]
      [] field = "input_feature_num" -> x.shape[Len(x.shape)]
      [] field = "future_seq_len" -> y.shape[Len(y.shape) - 1]
      [] field = "output_feature_num" -> y.shape[Len(y.shape)]

Mismatches(field, dc, x, y) == dc[field] # ActualOf(field, x, y)

AnyMismatch(dc, x, y) ==
    \E f \in {"past_seq_len", "input_feature_num", "future_seq_len",
              "output_feature_num"} : Mismatches(f, dc, x, y)

\* the error that reports the earliest mismatching field of the sequence order
FirstMismatch(order, dc, x, y) ==
    LET idx == {i \in 1..Len(order) : Mismatches(order[i], dc, x, y)}
        first == CHOOSE i \in idx : \A j \in idx : i <= j
    IN  [field |-> order[first], expected |-> dc[order[first]],
         actual |-> ActualOf(order[first], x, y)]

FitFailedShape == last.op = "fit" /\ last.outcome = "ShapeMismatch"

FitReturned == last.op = "fit" /\ last.outcome = "ok"

NoFitEvalCall == \A i \in 1..Len(last.calls) : last.calls[i].op # "fit_eval"

\* C1: while the model is not built (no fit or restore has completed), every
\* predict, predict_with_onnx, evaluate, evaluate_with_onnx and save raises
\* NotBuilt, makes no collaborator call and leaves the built flag false.
C1_NotBuiltRaisedLocally ==
    [][(~internal.model_built /\ last'.op \in GatedOps) =>
          /\ last'.outcome = "NotBuilt"
          /\ last'.calls = NoCalls
          /\ ~internal'.model_built]_vars

C1_Witness ==
    /\ last.op = "evaluate_with_onnx"
    /\ last.outcome = "NotBuilt"
    /\ last.calls = NoCalls
    /\ ~internal.model_built

\* C2: a fit on matching shapes that returns normally leaves the model built,
\* and from then on no operation ever raises NotBuilt.
C2_FitThenNeverNotBuilt ==
    [](FitReturned =>
          /\ internal.model_built
          /\ [](last.outcome # "NotBuilt"))

C2_Witness ==
    /\ FitReturned
    /\ internal.model_built
    /\ ~AnyMismatch(data_config, last.args.x, last.args.y)

\* C3: restore is never refused with NotBuilt and always reaches the
\* collaborator, also on a forecaster that was never fitted; after a restore
\* that returns normally the model is built and a predict that follows
\* immediately does not raise NotBuilt.
C3_RestoreUngatedThenPredict ==
    /\ [](last.op = "restore" =>
             /\ last.outcome # "NotBuilt"
             /\ Len(last.calls) = 1
             /\ last.calls[1].op = "restore"
             /\ (last.outcome = "ok" => internal.model_built))
    /\ [][(last.op = "restore" /\ last.outcome = "ok" /\ last'.op = "predict")
             => last'.outcome # "NotBuilt"]_vars

C3_Witness ==
    /\ last.op = "restore"
    /\ last.outcome = "ok"
    /\ BatchSizeOf(config) = {}
    /\ internal.model_built

\* C4: a fit in which any of the four checked dimensions disagrees with
\* ShapeConfig ends in ShapeMismatch without a fit_eval call; a fit in which
\* all four agree raises no ShapeMismatch and calls fit_eval exactly once.
C4_ShapeMismatchIffDisagree ==
    last.op = "fit" =>
        IF AnyMismatch(data_config, last.args.x, last.args.y)
        THEN last.outcome = "ShapeMismatch" /\ NoFitEvalCall
        ELSE /\ last.outcome # "ShapeMismatch"
             /\ Len(last.calls) = 1
             /\ last.calls[1].op = "fit_eval"

C4_Witness ==
    /\ FitFailedShape
    /\ NoFitEvalCall
    /\ Mismatches("input_feature_num", data_config, last.args.x, last.args.y)
    /\ ~Mismatches("past_seq_len", data_config, last.args.x, last.args.y)
    /\ ~Mismatches("future_seq_len", data_config, last.args.x, last.args.y)
    /\ ~Mismatches("output_feature_num", data_config, last.args.x, last.args.y)

ClaimedOrder ==
    <<"past_seq_len", "input_feature_num", "future_seq_len", "output_feature_num">>

SourceOrder ==
    <<"past_seq_len", "future_seq_len", "input_feature_num", "output_feature_num">>

\* C5 as stated: the ShapeMismatch names the earliest mismatching field in the
\* order x.shape[-2], x.shape[-1], y.shape[-2], y.shape[-1].
C5_Original ==
    FitFailedShape =>
        last.err = FirstMismatch(ClaimedOrder, data_config, last.args.x, last.args.y)

\* C5 amended: the ShapeMismatch names the earliest mismatching field in the
\* order past_seq_len (x.shape[-2]), future_seq_len (y.shape[-2]),
\* input_feature_num (x.shape[-1]), output_feature_num (y.shape[-1]), with the
\* configured and the actual value of that field.
C5_FirstFailingCheckWins ==
    FitFailedShape =>
        last.err = FirstMismatch(SourceOrder, data_config, last.args.x, last.args.y)

C5_Witness ==
    /\ FitFailedShape
    /\ Mismatches("input_feature_num", data_config, last.args.x, last.args.y)
    /\ Mismatches("future_seq_len", data_config, last.args.x, last.args.y)
    /\ ~Mismatches("past_seq_len", data_config, last.args.x, last.args.y)
    /\ last.err.field = "future_seq_len"

\* C6: after a fit with batch_size=b that returns normally, config holds
\* batch_size = b and fit_eval received that b; no operation other than fit
\* changes config's batch_size.
C6_BatchSizeFromLastFit ==
    /\ [](FitReturned =>
             /\ BatchSizeOf(config) = {last.args.batch_size}
             /\ BatchSizeOf(last.calls[1].config) = {last.args.batch_size})
    /\ [][last'.op # "fit" => BatchSizeOf(config') = BatchSizeOf(config)]_vars

C6_Witness ==
    /\ FitReturned
    /\ last.args.batch_size = 64
    /\ config["batch_size"] = 64
    /\ last.calls[1].config["batch_size"] = 64

\* C7: the built flag is false after construction, turns true only in a step
\* that is a fit or a restore returning normally, and is never reset.
C7_BuiltMonotone ==
    /\ ~internal.model_built
    /\ [][/\ internal.model_built => internal'.model_built
          /\ (~internal.model_built /\ internal'.model_built) =>
                (last'.op \in {"fit", "restore"} /\ last'.outcome = "ok")]_vars

C7_Witness ==
    /\ internal.model_built
    /\ FitFailedShape

\* C8: no operation writes data_config, and every config field other than
\* batch_size keeps its value in every step.
C8_ConfigFrame ==
    [][data_config' = data_config /\ SameOtherConfig(config, config')]_vars

C8_Witness ==
    /\ FitReturned
    /\ BatchSizeOf(config) # {}
    /\ OtherConfigKeys \subseteq DOMAIN config

\* C9: a fit that passes shape validation hands fit_eval the data (x, y), and
\* as validation data (x, y) when validation_data is None and the supplied
\* validation_data otherwise; fit returns fit_eval's result.
C9_ValidationDefault ==
    (last.op = "fit" /\ last.outcome # "ShapeMismatch") =>
        /\ Len(last.calls) = 1
        /\ last.calls[1].data = <<last.args.x, last.args.y>>
        /\ last.calls[1].validation_data =
              IF last.args.validation_data = NoValidation
              THEN <<last.args.x, last.args.y>>
              ELSE last.args.validation_data
        /\ (last.outcome = "ok" => last.ret = last.calls[1].result)

C9_Witness ==
    /\ FitReturned
    /\ last.args.validation_data # NoValidation
    /\ last.calls[1].validation_data = last.args.validation_data
    /\ last.calls[1].validation_data # <<last.args.x, last.args.y>>
    /\ last.ret = "r2"

\* C10 as stated: a fit that fails with ShapeMismatch leaves the whole facade
\* state, config's batch_size included, as it was before the call.
C10_Original ==
    [][(last'.op = "fit" /\ last'.outcome = "ShapeMismatch") =>
          /\ internal' = internal
          /\ data_config' = data_config
          /\ config' = config]_vars

\* C10 amended: fit assigns batch_size before it validates shapes, so a fit
\* that fails with ShapeMismatch leaves the built flag, data_config and the
\* other config fields unchanged, while config's batch_size is the failing
\* call's batch_size.
C10_FailedFitKeepsAllButBatchSize ==
    [][(last'.op = "fit" /\ last'.outcome = "ShapeMismatch") =>
          /\ internal' = internal
          /\ data_config' = data_config
          /\ SameOtherConfig(config, config')
          /\ BatchSizeOf(config') = {last'.args.batch_size}]_vars

C10_Witness ==
    /\ FitFailedShape
    /\ ~internal.model_built
    /\ BatchSizeOf(config) = {64}

====
